---- MODULE Spec2Model ----
(***************************************************************************)
(* Model of dialoguer's MultiSelect prompt (src/prompts/multi_select.rs):   *)
(* the builder that accumulates the configuration, and interact_on, the     *)
(* render / read-key loop over (sel, page, checked, search_string).         *)
(*                                                                          *)
(* Strings are sequences of one-character strings.  Indices are 0-based as  *)
(* in the source; a Rust Vec v is a TLA+ sequence whose element v[i] of the *)
(* source is v[i + 1] here.                                                 *)
(***************************************************************************)
EXTENDS Integers, Sequences, FiniteSets, TLC

\* ------------------------------------------------------------------ bounds

\* Largest number of items the builder is given.
MaxItems == 2

\* Longest search string typed (Key::Char is refused by the environment
\* beyond it).
MaxFilter == 2

\* --------------------------------------------------------------- input sets

\* Item labels the builder is given.
Labels == { <<"b", "A">>, <<"b">> }

\* Characters the user types into the search string (Key::Char(x), x /= ' ').
Chars == { "A" }

\* Values handed to page_size().
PageSizes == { 0, 1 }

\* Prompt texts handed to with_prompt().
Prompts == { <<"?">> }

\* Sequences over S of length lo..hi.
SeqsOf(S, lo, hi) == UNION { [1..n -> S] : n \in lo..hi }

\* ---------------------------------------------------------------- constants

\* page_size of a fresh MultiSelect, and the value a page_size of 0 is
\* coerced to.
DEFAULT_PAGE_SIZE == 10

\* !0 as usize.  TLC's integers are 32 bits wide; sel never exceeds
\* MaxItems * capacity here, so the value only has to be out of its reach.
USIZE_NOT_ZERO == 2147483647

\* -------------------------------------------------------------------- state

VARIABLES
    \* struct MultiSelect
    items,          \* Vec<String>
    defaults,       \* Vec<bool>
    prompt,         \* Option<String>: <<>> is None, <<s>> is Some(s)
    clear,          \* bool; clear(false), which only takes the clear call out
                    \* of the Escape and Enter arms, is not modelled
    paged,          \* bool
    page_size,      \* u32
    \* interact_on
    pc,             \* "build" | "loop" (top of the loop body) | "done"
    page,           \* let mut page
    sel,            \* let mut sel
    checked,        \* let mut checked
    search_string,  \* let mut search_string
    \* the terminal, and what interact_on gave back
    io_started,     \* some renderer or terminal call has been made
    cursor_hidden,  \* the terminal's cursor is hidden
    outcome,        \* "none" | "Confirmed" | "Cancelled" | "EmptyInput"
                    \* | "IoError" | one of Panics
    failed_call,    \* the call whose io::Error was propagated, or "none"
    ret             \* the Vec<usize> of an Ok return

config == <<items, defaults, prompt, clear, paged, page_size>>
locals == <<page, sel, checked, search_string>>
world  == <<io_started, cursor_hidden, outcome, failed_call, ret>>
vars   == <<config, pc, locals, world>>

\* ------------------------------------------------------------ pure helpers

\* char::to_lowercase on the characters that occur.
ToLowerChar(c) ==
    CASE c = "A" -> "a"
      [] c = "B" -> "b"
      [] OTHER   -> c

\* str::to_lowercase
to_lowercase(s) == [i \in 1..Len(s) |-> ToLowerChar(s[i])]

\* str::contains: scan for the first offset at which pat is a prefix.
RECURSIVE contains(_, _)
contains(s, pat) ==
    IF Len(pat) > Len(s) THEN FALSE
    ELSE IF SubSeq(s, 1, Len(pat)) = pat THEN TRUE
    ELSE contains(Tail(s), pat)

\* The filter closure comparing against the search string as typed.
FilterPredicateRawQuery(item, q) ==
    Len(q) = 0 \/ contains(to_lowercase(item), q)

\* The closure of the .filter(..) at lines 191-194.
FilterPredicate(item, q) ==
    Len(q) = 0 \/ contains(to_lowercase(item), to_lowercase(q))

\* original_items.iter().enumerate().filter(..).map(|(idx, item)| (item, idx))
\* from index idx on, for the search string q.
RECURSIVE FilterFrom(_, _)
FilterFrom(idx, q) ==
    IF idx >= Len(items) THEN <<>>
    ELSE LET item == items[idx + 1]
             rest == FilterFrom(idx + 1, q)
         IN  IF FilterPredicate(item, q) THEN << <<item, idx>> >> \o rest
             ELSE rest

\* let filtered_indexed_items, as the frame at the top of the loop computes it.
filtered_indexed_items == FilterFrom(0, search_string)

\* let filtered_items
filtered_items ==
    [i \in 1..Len(filtered_indexed_items) |-> filtered_indexed_items[i][1]]

\* v.into_iter().enumerate().filter_map(|(idx, c)| if c { Some(idx) } else
\* { None }).collect(), from index idx on.
RECURSIVE CheckedFrom(_, _)
CheckedFrom(v, idx) ==
    IF idx >= Len(v) THEN <<>>
    ELSE IF v[idx + 1] THEN <<idx>> \o CheckedFrom(v, idx + 1)
    ELSE CheckedFrom(v, idx + 1)

\* The Ok value of the Enter and Escape arms.
CheckedIndices(v) == CheckedFrom(v, 0)

\* let capacity
capacity ==
    IF paged THEN (IF page_size > 0 THEN page_size ELSE DEFAULT_PAGE_SIZE)
    ELSE Len(items)

\* let pages = (self.items.len() as f64 / capacity as f64).ceil() as usize
pages == (Len(items) + capacity - 1) \div capacity

\* ------------------------------------------------------------------ builder

Init ==
    /\ items = <<>>
    /\ defaults = <<>>
    /\ prompt = <<>>
    /\ clear = TRUE
    /\ paged = FALSE
    /\ page_size = DEFAULT_PAGE_SIZE
    /\ pc = "build"
    /\ page = 0
    /\ sel = 0
    /\ checked = <<>>
    /\ search_string = <<>>
    /\ io_started = FALSE
    /\ cursor_hidden = FALSE
    /\ outcome = "none"
    /\ failed_call = "none"
    /\ ret = <<>>

\* pub fn paged
Paged(val) ==
    /\ pc = "build"
    /\ paged' = val
    /\ UNCHANGED <<items, defaults, prompt, clear, page_size, pc, locals, world>>

\* pub fn page_size
PageSize(val) ==
    /\ pc = "build"
    /\ page_size' = IF val <= 0 THEN DEFAULT_PAGE_SIZE ELSE val
    /\ UNCHANGED <<items, defaults, prompt, clear, paged, pc, locals, world>>

\* defaults() as a plain copy of the slice, without the chain/take resize.
DefaultsWithoutResize(val) ==
    /\ pc = "build"
    /\ defaults' = val
    /\ UNCHANGED <<items, prompt, clear, paged, page_size, pc, locals, world>>

\* pub fn defaults
Defaults(val) ==
    /\ pc = "build"
    /\ defaults' = [i \in 1..Len(items) |-> IF i <= Len(val) THEN val[i] ELSE FALSE]
    /\ UNCHANGED <<items, prompt, clear, paged, page_size, pc, locals, world>>

\* pub fn item_checked
ItemChecked(item, c) ==
    /\ pc = "build"
    /\ Len(items) < MaxItems
    /\ items' = Append(items, item)
    /\ defaults' = Append(defaults, c)
    /\ UNCHANGED <<prompt, clear, paged, page_size, pc, locals, world>>

\* pub fn item
Item(item) == ItemChecked(item, FALSE)

\* pub fn items
Items(list) ==
    /\ pc = "build"
    /\ Len(items) + Len(list) <= MaxItems
    /\ items' = items \o list
    /\ defaults' = defaults \o [i \in 1..Len(list) |-> FALSE]
    /\ UNCHANGED <<prompt, clear, paged, page_size, pc, locals, world>>

\* pub fn items_checked
ItemsChecked(list) ==
    /\ pc = "build"
    /\ Len(items) + Len(list) <= MaxItems
    /\ items' = items \o [i \in 1..Len(list) |-> list[i][1]]
    /\ defaults' = defaults \o [i \in 1..Len(list) |-> list[i][2]]
    /\ UNCHANGED <<prompt, clear, paged, page_size, pc, locals, world>>

\* pub fn with_prompt
WithPrompt(p) ==
    /\ pc = "build"
    /\ prompt' = <<p>>
    /\ UNCHANGED <<items, defaults, clear, paged, page_size, pc, locals, world>>

Builder ==
    \/ \E val \in BOOLEAN : Paged(val)
    \/ \E val \in PageSizes : PageSize(val)
    \/ \E val \in SeqsOf(BOOLEAN, 0, MaxItems + 1) : Defaults(val)
    \/ \E item \in Labels, c \in BOOLEAN : ItemChecked(item, c)
    \/ \E item \in Labels : Item(item)
    \/ \E list \in SeqsOf(Labels, 1, MaxItems - Len(items)) : Items(list)
    \/ \E list \in SeqsOf(Labels \X BOOLEAN, 1, MaxItems - Len(items)) :
            ItemsChecked(list)
    \/ \E p \in Prompts : WithPrompt(p)

\* -------------------------------------------------------------- interact_on

\* interact_on is left, by a return or by unwinding: its locals are gone.
Leave ==
    /\ pc' = "done"
    /\ page' = 0
    /\ sel' = 0
    /\ checked' = <<>>
    /\ search_string' = <<>>

\* interact_on drawing the first frame before it looks at the item list.
InteractOnChecksAfterDrawing ==
    /\ pc = "build"
    /\ IF Len(items) = 0
       THEN /\ Leave
            /\ outcome' = "EmptyInput"
            /\ io_started' = TRUE
            /\ UNCHANGED <<cursor_hidden, failed_call, ret>>
       ELSE /\ pc' = "loop"
            /\ page' = 0
            /\ sel' = 0
            /\ checked' = defaults
            /\ search_string' = <<>>
            /\ UNCHANGED world
    /\ UNCHANGED config

\* pub fn interact_on, up to the first pass through the loop.
InteractOn ==
    /\ pc = "build"
    /\ IF Len(items) = 0
       THEN /\ Leave
            /\ outcome' = "EmptyInput"
            /\ UNCHANGED <<io_started, cursor_hidden, failed_call, ret>>
       ELSE /\ pc' = "loop"
            /\ page' = 0
            /\ sel' = 0
            /\ checked' = defaults
            /\ search_string' = <<>>
            /\ UNCHANGED world
    /\ UNCHANGED config

\* The indices idx that .enumerate().skip(page * capacity).take(capacity)
\* yields over filtered_items.
RowIndices ==
    { idx \in 0..(Len(filtered_items) - 1) :
        idx >= page * capacity /\ idx < page * capacity + capacity }

\* The multi_select_prompt_item calls of one frame, in order: label, checked
\* flag and whether the row is the active one.
Rows ==
    LET first == page * capacity
    IN  [n \in 1..Cardinality(RowIndices) |->
            LET idx == first + n - 1
                orig_idx == filtered_indexed_items[idx + 1][2]
            IN  [item |-> filtered_items[idx + 1],
                 checked |-> checked[orig_idx + 1],
                 active |-> (sel = idx)]]

\* The renderer and terminal calls of one frame, in order, read_key last.
FrameCalls ==
    <<"clear", "multi_select_prompt">>
    \o (IF RowIndices = {} THEN <<>> ELSE <<"multi_select_prompt_item">>)
    \o <<"hide_cursor", "flush", "read_key">>

\* The frame was drawn, hide_cursor included, and read_key returned a key.
FrameDone ==
    /\ pc = "loop"
    /\ io_started' = TRUE

\* A failed frame call passed over: the loop goes on to read the next key.
FrameIoErrorPassedOver(n) ==
    /\ pc = "loop"
    /\ n \in 1..Len(FrameCalls)
    /\ failed_call' = FrameCalls[n]
    /\ io_started' = TRUE
    /\ cursor_hidden' = TRUE
    /\ UNCHANGED <<config, pc, locals, outcome, ret>>

\* One of the frame's calls returned Err, which `?` hands to the caller.
FrameIoError(n) ==
    /\ pc = "loop"
    /\ n \in 1..Len(FrameCalls)
    /\ Leave
    /\ outcome' = "IoError"
    /\ failed_call' = FrameCalls[n]
    /\ io_started' = TRUE
    /\ cursor_hidden' = IF FrameCalls[n] \in {"flush", "read_key"} THEN TRUE
                        ELSE cursor_hidden
    /\ UNCHANGED <<config, ret>>

\* The panics interact_on can raise, as outcomes.
Panics == {"PanicRemainderByZero", "PanicSubtractOverflow", "PanicIndexOutOfBounds"}

\* A match arm panicked: the thread unwinds out of interact_on, the cursor
\* hidden by the frame.
Panic(kind) ==
    /\ Leave
    /\ outcome' = kind
    /\ cursor_hidden' = TRUE
    /\ UNCHANGED <<failed_call, ret>>

\* The loop without the page recompute: page stays what the arm left.
PageRecomputeLeftOut(new_sel, new_page) == new_page

\* The page recompute at lines 322-324, from the match arm's sel and page.
PageRecompute(new_sel, new_page) ==
    IF new_sel < new_page * capacity \/ new_sel >= (new_page + 1) * capacity
    THEN new_sel \div capacity
    ELSE new_page

\* What follows a match arm that did not return, with the arm's values of the
\* locals: the page recompute, then clear_preserve_prompt, which may fail.
\* The cursor stays hidden, as the frame left it.
EndOfIteration(new_sel, new_page, new_checked, new_search) ==
    /\ \/ /\ pc' = "loop"
          /\ sel' = new_sel
          /\ page' = PageRecompute(new_sel, new_page)
          /\ checked' = new_checked
          /\ search_string' = new_search
          /\ UNCHANGED <<outcome, failed_call>>
       \/ /\ Leave
          /\ outcome' = "IoError"
          /\ failed_call' = "clear_preserve_prompt"
    /\ cursor_hidden' = TRUE
    /\ UNCHANGED ret

\* (sel as u64 + 1).rem(filtered_items.len() as u64) as usize
DownSel(s, len) == (s + 1) % len

\* ((sel as i64 - 1 + filtered_items.len() as i64)
\*     % (filtered_items.len() as i64)) as usize
UpSel(s, len) == (s - 1 + len) % len

\* Key::ArrowDown
ArrowDown ==
    /\ FrameDone
    /\ IF sel = USIZE_NOT_ZERO
       THEN EndOfIteration(0, page, checked, search_string)
       ELSE IF Len(filtered_items) = 0
       THEN Panic("PanicRemainderByZero")
       ELSE EndOfIteration(DownSel(sel, Len(filtered_items)), page,
                           checked, search_string)
    /\ UNCHANGED config

\* Key::ArrowUp
ArrowUp ==
    /\ FrameDone
    /\ IF sel = USIZE_NOT_ZERO
       THEN IF Len(filtered_items) = 0
            THEN Panic("PanicSubtractOverflow")
            ELSE EndOfIteration(Len(filtered_items) - 1, page,
                                checked, search_string)
       ELSE IF Len(filtered_items) = 0
       THEN Panic("PanicRemainderByZero")
       ELSE EndOfIteration(UpSel(sel, Len(filtered_items)), page,
                           checked, search_string)
    /\ UNCHANGED config

\* The ArrowLeft arm without its `if self.paged`.
ArrowLeftWhateverPaged ==
    /\ FrameDone
    /\ LET p == IF page = 0 THEN pages - 1 ELSE page - 1
       IN  EndOfIteration(p * capacity, p, checked, search_string)
    /\ UNCHANGED config

\* Key::ArrowLeft
ArrowLeft ==
    /\ FrameDone
    /\ IF paged
       THEN LET p == IF page = 0 THEN pages - 1 ELSE page - 1
            IN  EndOfIteration(p * capacity, p, checked, search_string)
       ELSE EndOfIteration(sel, page, checked, search_string)
    /\ UNCHANGED config

\* Key::ArrowRight
ArrowRight ==
    /\ FrameDone
    /\ IF paged
       THEN LET p == IF page = pages - 1 THEN 0 ELSE page + 1
            IN  EndOfIteration(p * capacity, p, checked, search_string)
       ELSE EndOfIteration(sel, page, checked, search_string)
    /\ UNCHANGED config

\* checked[orig_idx] = !checked[orig_idx]
Toggle(v, orig_idx) == [v EXCEPT ![orig_idx + 1] = ~v[orig_idx + 1]]

\* Key::Char(' ')
Space ==
    /\ FrameDone
    /\ IF sel >= Len(filtered_indexed_items)
       THEN Panic("PanicIndexOutOfBounds")
       ELSE LET orig_idx == filtered_indexed_items[sel + 1][2]
            IN  EndOfIteration(sel, page, Toggle(checked, orig_idx),
                               search_string)
    /\ UNCHANGED config

\* The calls of the Escape and Enter arms, in order.
ExitCalls ==
    (IF clear THEN <<"clear">> ELSE <<>>)
    \o (IF prompt # <<>> THEN <<"multi_select_prompt_selection">> ELSE <<>>)
    \o <<"show_cursor", "flush">>

\* The Escape or Enter arm: every call succeeds and value is returned, or
\* one of the calls returns Err.
Exit(kind, value) ==
    /\ FrameDone
    /\ Leave
    /\ \/ /\ outcome' = kind
          /\ ret' = value
          /\ cursor_hidden' = FALSE
          /\ UNCHANGED failed_call
       \/ \E n \in 1..Len(ExitCalls) :
            /\ outcome' = "IoError"
            /\ failed_call' = ExitCalls[n]
            /\ cursor_hidden' = (ExitCalls[n] # "flush")
            /\ UNCHANGED ret
    /\ UNCHANGED config

\* The Escape arm returning the edited checked state.
EscapeReturnsChecked == Exit("Cancelled", CheckedIndices(checked))

\* The Enter arm returning the configured defaults.
EnterReturnsDefaults == Exit("Confirmed", CheckedIndices(defaults))

\* Key::Escape
Escape == Exit("Cancelled", CheckedIndices(defaults))

\* Key::Enter
Enter == Exit("Confirmed", CheckedIndices(checked))

\* search_string.push(x)
Push(s, x) == Append(s, x)

\* Backspace clearing the whole search string.
PopClearsAll(s) == <<>>

\* if search_string.len() > 0 { search_string.pop(); }
Pop(s) == IF Len(s) > 0 THEN SubSeq(s, 1, Len(s) - 1) ELSE s

\* The Char arm starting the checked vector afresh from the defaults.
CharResetsChecked(x) ==
    /\ FrameDone
    /\ Len(search_string) < MaxFilter
    /\ EndOfIteration(sel, page, defaults, Push(search_string, x))
    /\ UNCHANGED config

\* Key::Char(x), x not a space
Char(x) ==
    /\ FrameDone
    /\ Len(search_string) < MaxFilter
    /\ EndOfIteration(sel, page, checked, Push(search_string, x))
    /\ UNCHANGED config

\* Key::Backspace
Backspace ==
    /\ FrameDone
    /\ EndOfIteration(sel, page, checked, Pop(search_string))
    /\ UNCHANGED config

\* Any other key: the `_ => {}` arm.
OtherKey ==
    /\ FrameDone
    /\ EndOfIteration(sel, page, checked, search_string)
    /\ UNCHANGED config

Next ==
    \/ Builder
    \/ InteractOn
    \/ \E n \in 1..6 : FrameIoError(n)
    \/ ArrowDown
    \/ ArrowUp
    \/ ArrowLeft
    \/ ArrowRight
    \/ Space
    \/ Escape
    \/ Enter
    \/ \E x \in Chars : Char(x)
    \/ Backspace
    \/ OtherKey

Spec == Init /\ [][Next]_vars

\* ------------------------------------------------------------------- claims

\* r is strictly ascending, holds only valid indices of v, and holds exactly
\* the indices at which v is true.
IsIndexListOf(r, v) ==
    /\ \A i \in 1..Len(r) : r[i] \in 0..(Len(v) - 1) /\ v[r[i] + 1]
    /\ \A i \in 1..(Len(r) - 1) : r[i] < r[i + 1]
    /\ \A j \in 0..(Len(v) - 1) : v[j + 1] => \E i \in 1..Len(r) : r[i] = j

\* C1: whenever Enter ends the interaction with an Ok value, that list is
\* strictly ascending, holds only indices 0 <= i < len(items), and holds
\* exactly the i with checked[i] true at the moment Enter was pressed.
C1_EnterReturnsChecked ==
    [][(pc = "loop" /\ outcome' = "Confirmed") =>
          /\ Len(checked) = Len(items)
          /\ IsIndexListOf(ret', checked)]_vars

\* Enter has returned item 1 alone, which Space checked: no default was set.
C1_Witness ==
    /\ outcome = "Confirmed"
    /\ ret = <<1>>
    /\ defaults = <<FALSE, FALSE>>

\* C2: whenever Escape ends the interaction with an Ok value, that list is
\* the ascending list of the indices whose default flag is true.
C2_EscapeReturnsDefaults ==
    outcome = "Cancelled" => IsIndexListOf(ret, defaults)

\* Escape has returned item 1, the one item checked by default.
C2_Witness ==
    /\ outcome = "Cancelled"
    /\ defaults = <<FALSE, TRUE>>
    /\ ret = <<1>>

\* C3: with zero items interact_on returns the empty-input error, no renderer
\* or terminal call has been made, and the loop is never entered.
C3_EmptyInputBeforeAnyCall ==
    (Len(items) = 0 /\ pc # "build") =>
        /\ pc = "done"
        /\ outcome = "EmptyInput"
        /\ ~io_started
        /\ ~cursor_hidden
        /\ failed_call = "none"

\* interact_on was called on a builder with a prompt and paging but no item.
C3_Witness ==
    /\ outcome = "EmptyInput"
    /\ prompt # <<>>
    /\ paged

\* C4: on every exit path of the loop (Confirmed, Cancelled, a propagated
\* I/O failure) the cursor is visible again when interact_on returns.
C4_CursorVisibleOnEveryExit ==
    (pc = "done" /\ outcome \in {"Confirmed", "Cancelled", "IoError"}) =>
        ~cursor_hidden

\* C5: at the top of every frame, if the filtered view is non-empty then
\* 0 <= cursor < len(filtered).
C5_CursorInFilteredView ==
    (pc = "loop" /\ Len(filtered_indexed_items) > 0) =>
        (0 <= sel /\ sel < Len(filtered_indexed_items))

\* C6: defaults has one entry per item after any sequence of builder calls,
\* and checked has one entry per item throughout the loop.
C6_CheckedLenIsItemsLen ==
    /\ Len(defaults) = Len(items)
    /\ pc = "loop" => Len(checked) = Len(items)

\* The loop runs on a full item list whose checked vector Space has edited,
\* with a search string typed.
C6_Witness ==
    /\ pc = "loop"
    /\ Len(items) = 2
    /\ checked # defaults
    /\ search_string # <<>>

\* q, lowercased, occurs in label, lowercased, at some offset.
MatchesAt(label, q) ==
    \E o \in 0..(Len(label) - Len(q)) :
        \A j \in 1..Len(q) : ToLowerChar(label[o + j]) = ToLowerChar(q[j])

\* C7: the filtered view of every frame is, in original order, exactly the
\* (label, originalIndex) pairs of the items whose lowercased label contains
\* the lowercased search string; for the empty search string it is the
\* identity over all items.
C7_FilteredViewIsTheMatches ==
    pc = "loop" =>
        LET F == filtered_indexed_items
            M == { i \in 0..(Len(items) - 1) : MatchesAt(items[i + 1], search_string) }
        IN  /\ Len(F) = Cardinality(M)
            /\ \A k \in 1..Len(F) : F[k][2] \in M /\ F[k][1] = items[F[k][2] + 1]
            /\ \A k \in 1..(Len(F) - 1) : F[k][2] < F[k + 1][2]
            /\ search_string = <<>> =>
                   F = [i \in 1..Len(items) |-> <<items[i], i - 1>>]

\* "A" is typed and the view holds the second of two items only: "bA"
\* matches (case-insensitively, past its first character), "b" does not.
C7_Witness ==
    /\ pc = "loop"
    /\ search_string = <<"A">>
    /\ items = << <<"b">>, <<"b", "A">> >>
    /\ filtered_indexed_items = << << <<"b", "A">>, 1 >> >>

\* n pops applied to s.
RECURSIVE PopTimes(_, _)
PopTimes(s, n) == IF n = 0 THEN s ELSE PopTimes(Pop(s), n - 1)

\* C8: a Backspace takes exactly the last character off a non-empty search
\* string, so as many Backspaces as characters were typed empty it; the
\* frame after the search string became empty shows the full item list in
\* original order; a Backspace on the empty search string changes nothing.
C8_BackspaceUndoesTyping ==
    [][(Backspace /\ pc' = "loop") =>
          /\ Len(search_string') =
                 (IF Len(search_string) = 0 THEN 0 ELSE Len(search_string) - 1)
          /\ search_string' = SubSeq(search_string, 1, Len(search_string'))
          /\ PopTimes(search_string, Len(search_string)) = <<>>
          /\ search_string = <<>> => UNCHANGED locals
          /\ search_string' = <<>> =>
                 filtered_indexed_items' =
                     [i \in 1..Len(items) |-> <<items[i], i - 1>>]]_vars

\* Two characters are typed, no item matches them, and the loop waits for
\* the Backspaces.
C8_Witness ==
    /\ pc = "loop"
    /\ Len(search_string) = 2
    /\ Len(filtered_indexed_items) = 0
    /\ Len(items) = 2

\* C9: in any state with a non-empty filtered view Space toggles (it does
\* not abort), and a second Space restores the whole checked vector.
C9_SpaceTwiceRestoresChecked ==
    [][(Space /\ Len(filtered_indexed_items) > 0) =>
          /\ outcome' \notin Panics
          /\ pc' = "loop" =>
                 /\ sel' < Len(filtered_indexed_items')
                 /\ Toggle(checked', filtered_indexed_items'[sel' + 1][2]) = checked]_vars

\* n Downs applied to cursor s in a view of len rows.
RECURSIVE DownTimes(_, _, _)
DownTimes(s, len, n) == IF n = 0 THEN s ELSE DownTimes(DownSel(s, len), len, n - 1)

\* C10: in any state with a non-empty filtered view a Down gives
\* cursor = (cursor + 1) mod len(filtered), and len(filtered) Downs in a row
\* return the cursor to the value it had.
C10_DownWrapsAround ==
    [][(ArrowDown /\ pc' = "loop" /\ Len(filtered_items) > 0) =>
          /\ sel' = (sel + 1) % Len(filtered_items)
          /\ DownTimes(sel, Len(filtered_items), Len(filtered_items)) = sel]_vars

\* ceil(totalVisible / capacity) for the filtered view of the current frame.
VisiblePageCount == (Len(filtered_items) + capacity - 1) \div capacity

\* C11: with paging enabled and a non-empty filtered view, Right moves page
\* to page + 1 and wraps from pageCount - 1 to 0, Left moves page to page - 1
\* and wraps from 0 to pageCount - 1, pageCount being ceil(totalVisible /
\* capacity) for the filtered items; after either key cursor = page * capacity.
C11_PagingWrapsOverVisibleItems ==
    [][(paged /\ pc = "loop" /\ pc' = "loop" /\ Len(filtered_items) > 0) =>
          /\ ArrowRight =>
                 /\ page' = (IF page = VisiblePageCount - 1 THEN 0 ELSE page + 1)
                 /\ sel' = page' * capacity
          /\ ArrowLeft =>
                 /\ page' = (IF page = 0 THEN VisiblePageCount - 1 ELSE page - 1)
                 /\ sel' = page' * capacity]_vars

\* Every renderer and terminal call interact_on makes.
AllCalls ==
    {"clear", "multi_select_prompt", "multi_select_prompt_item", "hide_cursor",
     "flush", "read_key", "multi_select_prompt_selection", "show_cursor",
     "clear_preserve_prompt"}

\* C12: a failed renderer or terminal call ends interact_on at once with
\* that error: nothing more happens (no key is read, nothing is retried), and
\* no index list is returned; conversely a call that failed is never passed
\* over.
C12_IoErrorEndsTheInteraction ==
    /\ outcome = "IoError" =>
           /\ pc = "done"
           /\ failed_call \in AllCalls
           /\ ret = <<>>
           /\ ~ENABLED Next
    /\ failed_call # "none" => outcome = "IoError"

\* Enter was pressed with a prompt configured and the final summary draw
\* failed.
C12_Witness ==
    /\ outcome = "IoError"
    /\ failed_call = "multi_select_prompt_selection"
    /\ pc = "done"

\* C13: in an empty filtered view Space is skipped: the interaction goes on
\* and checked, cursor, page and the search string are unchanged.
C13_SpaceSkippedInEmptyView ==
    [][(Space /\ Len(filtered_indexed_items) = 0) =>
          /\ outcome' \notin Panics
          /\ pc' = "loop" => UNCHANGED locals]_vars

\* C14: in an empty filtered view Down and Up do not apply: the state is
\* unchanged and the loop goes on, the only outcomes of the interaction being
\* Confirmed, Cancelled and a propagated I/O error.
C14_DownUpSkippedInEmptyView ==
    [][((ArrowDown \/ ArrowUp) /\ Len(filtered_items) = 0) =>
          /\ outcome' \in {"none", "IoError"}
          /\ pc' = "loop" => UNCHANGED locals]_vars

\* C15: in any state with a non-empty filtered view Space toggles (it does
\* not abort) and flips exactly checked[o], o the original index of the item
\* at position cursor of the view; the other entries of checked, and cursor,
\* page and the search string, are unchanged.
C15_SpaceFlipsTheCursorItem ==
    [][(Space /\ Len(filtered_indexed_items) > 0) =>
          /\ outcome' \notin Panics
          /\ pc' = "loop" =>
                 /\ sel < Len(filtered_indexed_items)
                 /\ LET o == filtered_indexed_items[sel + 1][2]
                    IN  /\ Len(checked') = Len(checked)
                        /\ checked'[o + 1] = ~checked[o + 1]
                        /\ \A j \in 1..Len(checked) :
                               j # o + 1 => checked'[j] = checked[j]
                 /\ UNCHANGED <<sel, page, search_string>>]_vars

\* C16: Char, Backspace, Up, Down, Left and Right change no entry of checked,
\* and Enter returns every checked item, in the filtered view or not.
C16_CheckedSurvivesFilterChanges ==
    [][/\ ((ArrowDown \/ ArrowUp \/ ArrowLeft \/ ArrowRight \/ Backspace
             \/ \E x \in Chars : Char(x)) /\ pc' = "loop") =>
              checked' = checked
       /\ (Enter /\ outcome' = "Confirmed") =>
              \A i \in 1..Len(checked) :
                  checked[i] => \E k \in 1..Len(ret') : ret'[k] = i - 1]_vars

\* Item 0, "b", was checked by Space and "A" was typed since: the view holds
\* item 1 alone, and item 0 is still checked.
C16_Witness ==
    /\ pc = "loop"
    /\ items = << <<"b">>, <<"b", "A">> >>
    /\ defaults = <<FALSE, FALSE>>
    /\ search_string = <<"A">>
    /\ checked = <<TRUE, FALSE>>

\* C17: at the top of every frame the cursor lies in the window of the
\* active page.
C17_CursorInPageWindow ==
    pc = "loop" => (page * capacity <= sel /\ sel < (page + 1) * capacity)

\* Pages of one row: the cursor went down to row 1 and the page followed it.
C17_Witness ==
    /\ pc = "loop"
    /\ paged
    /\ capacity = 1
    /\ sel = 1
    /\ page = 1
    /\ search_string = <<>>

\* C18: at the top of every frame with a non-empty filtered view,
\* 0 <= page < pageCount, for the pageCount of the filtered view.
C18_PageBelowVisiblePageCount ==
    (pc = "loop" /\ Len(filtered_items) > 0) =>
        (0 <= page /\ page < VisiblePageCount)

\* C19: with paging disabled page is 0, capacity is len(items), so that
\* every filtered item is in the window, and Left and Right change none of
\* cursor, page, checked and the search string.
C19_LeftRightNoOpsWhenUnpaged ==
    [][(~paged /\ pc = "loop") =>
          /\ page = 0
          /\ capacity = Len(items)
          /\ RowIndices = 0..(Len(filtered_items) - 1)
          /\ ((ArrowLeft \/ ArrowRight) /\ pc' = "loop") => UNCHANGED locals]_vars

\* Paging is off and the loop waits for a key with the cursor on row 1 and
\* an item checked.
C19_Witness ==
    /\ pc = "loop"
    /\ ~paged
    /\ sel = 1
    /\ checked = <<FALSE, TRUE>>
    /\ cursor_hidden

\* The smaller of two numbers.
Min(a, b) == IF a < b THEN a ELSE b

\* C20: in every frame with a non-empty filtered view the rows drawn are the
\* filtered items at positions [page * capacity, min((page + 1) * capacity,
\* len(filtered))), there is at least one, each carries checked[originalIndex]
\* of its item, and exactly one, the one at position cursor, is flagged as the
\* cursor row.
C20_RowsDrawnAreTheWindow ==
    (pc = "loop" /\ Len(filtered_items) > 0) =>
        LET lo == page * capacity
            hi == Min((page + 1) * capacity, Len(filtered_items))
        IN  /\ lo < hi
            /\ Len(Rows) = hi - lo
            /\ \A n \in 1..Len(Rows) :
                   /\ Rows[n].item = filtered_indexed_items[lo + n][1]
                   /\ Rows[n].checked = checked[filtered_indexed_items[lo + n][2] + 1]
                   /\ Rows[n].active = (lo + n - 1 = sel)
            /\ Cardinality({ n \in 1..Len(Rows) : Rows[n].active }) = 1

====
